---- MODULE Spec2Model ----
(***************************************************************************)
(* A model of the BBCode renderer of src/main.rs: the TextStyle merge, the *)
(* leaf and composite node renderings, the two list joins, and the         *)
(* recursive resolution of Include<T> nodes against the resource files.    *)
(*                                                                         *)
(* Strings are TLA+ strings, built with \o exactly as the format! calls    *)
(* build them.  Option<T> is a sequence of length 0 (None) or 1 (Some).    *)
(***************************************************************************)
EXTENDS Integers, Sequences, FiniteSets, TLC

VARIABLES
    stack,      \* the call stack of to_bbcode activations, innermost last
    ret,        \* the String returned by the activation that last returned
    status,     \* "running", "returned", "done" (main printed) or a panic
    stdout,     \* the lines written by println!, in order
    checked,    \* TRUE: arithmetic overflow traps (debug); FALSE: it wraps
    present,    \* resource name -> "?", "yes", "no": what read_to_string saw
    decoded,    \* <<name, type>> -> what ron::from_str produced for it
    log,        \* the render events so far, in order (history)
    unit        \* the value under test of the pure-function specifications

vars == <<stack, ret, status, stdout, checked, present, decoded, log, unit>>

-----------------------------------------------------------------------------
(* Bounds of the model *)

\* the longest Vec a decoded List or DoubleList holds
MaxLen == 2
\* the longest Vec the list specification renders
MaxItems == 3
\* the width of usize in bits (the wrapped value of 0 - 1 is 2^UsizeBits - 1)
UsizeBits == 16

(* Program constants *)

\* TextStyle::size(120) in Enemy::to_bbcode
TitleSize == 120

-----------------------------------------------------------------------------
(* Option<T> *)

None == <<>>
Some(v) == <<v>>
IsSome(o) == o # <<>>
Unwrap(o) == o[1]

\* Option::or: self if it is Some, else the argument
OptionOr(self, optb) == IF IsSome(self) THEN self ELSE optb

-----------------------------------------------------------------------------
(* usize::to_string: the decimal digits, most significant first *)

Digit(d) ==
    CASE d = 0 -> "0" [] d = 1 -> "1" [] d = 2 -> "2" [] d = 3 -> "3"
      [] d = 4 -> "4" [] d = 5 -> "5" [] d = 6 -> "6" [] d = 7 -> "7"
      [] d = 8 -> "8" [] d = 9 -> "9"

RECURSIVE usize_to_string(_)
usize_to_string(n) ==
    IF n < 10 THEN Digit(n) ELSE usize_to_string(n \div 10) \o Digit(n % 10)

-----------------------------------------------------------------------------
(* TextStyle *)

TextStyle_default == [color |-> None, size |-> None, bold |-> FALSE, italic |-> FALSE]

TextStyle_color(color) == [TextStyle_default EXCEPT !.color = Some(color)]

TextStyle_size(size) == [TextStyle_default EXCEPT !.size = Some(size)]

TextStyle_bold == [TextStyle_default EXCEPT !.bold = TRUE]

TextStyle_italic == [TextStyle_default EXCEPT !.italic = TRUE]

\* a merge that keeps the left operand's color and size (operands swapped)
bitor_LeftWins(self, rhs) ==
    [color  |-> OptionOr(self.color, rhs.color),
     size   |-> OptionOr(self.size, rhs.size),
     bold   |-> rhs.bold \/ self.bold,
     italic |-> rhs.italic \/ self.italic]

\* a merge that takes bold from the right operand alone
bitor_BoldFromRhs(self, rhs) ==
    [color  |-> OptionOr(rhs.color, self.color),
     size   |-> OptionOr(rhs.size, self.size),
     bold   |-> rhs.bold,
     italic |-> rhs.italic \/ self.italic]

\* impl BitOr for TextStyle
bitor(self, rhs) ==
    [color  |-> OptionOr(rhs.color, self.color),
     size   |-> OptionOr(rhs.size, self.size),
     bold   |-> rhs.bold \/ self.bold,
     italic |-> rhs.italic \/ self.italic]

-----------------------------------------------------------------------------
(* Text *)

Text_new(text) == [k |-> "Text", s |-> text, style |-> TextStyle_default]

Text_style(self, style) == [k |-> "Text", s |-> self.s, style |-> style]

\* a rendering that wraps bold outside italic
Text_to_bbcode_BoldOutside(self) ==
    LET t0 == self.s
        t1 == IF IsSome(self.style.color)
              THEN "[color=" \o Unwrap(self.style.color) \o "]" \o t0 \o "[/color]"
              ELSE t0
        t2 == IF IsSome(self.style.size)
              THEN "[size=" \o usize_to_string(Unwrap(self.style.size)) \o "]" \o t1 \o "[/size]"
              ELSE t1
        t3 == IF self.style.italic THEN "[i]" \o t2 \o "[/i]" ELSE t2
        t4 == IF self.style.bold THEN "[b]" \o t3 \o "[/b]" ELSE t3
    IN  t4

\* impl ToBBCode for Text
Text_to_bbcode(self) ==
    LET t0 == self.s
        t1 == IF IsSome(self.style.color)
              THEN "[color=" \o Unwrap(self.style.color) \o "]" \o t0 \o "[/color]"
              ELSE t0
        t2 == IF IsSome(self.style.size)
              THEN "[size=" \o usize_to_string(Unwrap(self.style.size)) \o "]" \o t1 \o "[/size]"
              ELSE t1
        t3 == IF self.style.bold THEN "[b]" \o t2 \o "[/b]" ELSE t2
        t4 == IF self.style.italic THEN "[i]" \o t3 \o "[/i]" ELSE t3
    IN  t4

-----------------------------------------------------------------------------
(* KeyValue *)

\* KeyValue::new(key: &str, value: usize): both halves through to_string
KeyValue_new(key, value) ==
    [k |-> "KeyValue",
     key |-> Text_new(key \o ":"),
     value |-> Text_new(" " \o usize_to_string(value))]

\* a key setter that also restyles the value
KeyValue_style_key_Both(self, key) ==
    [k |-> "KeyValue",
     key |-> [k |-> "Text", s |-> self.key.s, style |-> key],
     value |-> [k |-> "Text", s |-> self.value.s, style |-> key]]

KeyValue_style_key(self, key) ==
    [k |-> "KeyValue",
     key |-> [k |-> "Text", s |-> self.key.s, style |-> key],
     value |-> self.value]

KeyValue_style_value(self, value) ==
    [k |-> "KeyValue",
     key |-> self.key,
     value |-> [k |-> "Text", s |-> self.value.s, style |-> value]]

KeyValue_style(self, key, value) ==
    KeyValue_style_value(KeyValue_style_key(self, key), value)

\* impl ToBBCode for KeyValue
KeyValue_to_bbcode(self) == Text_to_bbcode(self.key) \o Text_to_bbcode(self.value)

-----------------------------------------------------------------------------
(* Image *)

Image_new(url) == [k |-> "Image", url |-> url]

\* impl ToBBCode for Image
Image_to_bbcode(self) == "[img]" \o self.url \o "[/img]"

-----------------------------------------------------------------------------
(* The nodes the program renders *)

String_new(s) == [k |-> "String", s |-> s]

Include_new(uri, t) == [k |-> "Include", uri |-> uri, t |-> t]

List_new(items) == [k |-> "List", items |-> items]

DoubleList_new(items) == [k |-> "DoubleList", items |-> items]

\* an Enemy whose description is itself a roster file
Enemy_new_Nested(name, image, health, points, description) ==
    [k |-> "Enemy", name |-> name, image |-> image, health |-> health,
     points |-> points, description |-> Include_new(description, "ListEnemy")]

Enemy_new(name, image, health, points, description) ==
    [k |-> "Enemy", name |-> name, image |-> image, health |-> health,
     points |-> points, description |-> Include_new(description, "String")]

Enemies_new(uris) ==
    [k |-> "Enemies",
     list |-> DoubleList_new([j \in 1..Len(uris) |-> Include_new(uris[j], "ListEnemy")])]

TaromaruST_new(uri) == [k |-> "TaromaruST", enemies |-> Include_new(uri, "Enemies")]

MainNode == [k |-> "Main"]

-----------------------------------------------------------------------------
(* The resource files *)

\* the uri main passes to Include::<TaromaruST>::new
RootUri == "data/taromaru-st.ron"

\* the resource names the files can mention: the root's own and one more
Uris == {RootUri, "data/enemies.ron"}

Types == {"TaromaruST", "Enemies", "ListEnemy", "String"}

SeqsUpTo(S, n) == UNION {[1..m -> S] : m \in 0..n}

\* the text a file holds when it is read as a String: one text per file
DescriptionOf(uri) == IF uri = RootUri THEN "Roster." ELSE "Lurks in caves."

EnemyValues == {Enemy_new("Bat", "http://x/bat.png", 50, 100, u) : u \in Uris}

\* the values ron::from_str can produce from a file for a target type
ValuesOf(uri, t) ==
    CASE t = "TaromaruST" -> {TaromaruST_new(u) : u \in Uris}
      [] t = "Enemies"    -> {Enemies_new(us) : us \in SeqsUpTo(Uris, MaxLen)}
      [] t = "ListEnemy"  -> {List_new(es) : es \in SeqsUpTo(EnemyValues, MaxLen)}
      [] t = "String"     -> {String_new(DescriptionOf(uri))}

Unknown == [st |-> "?"]
DecodeErr == [st |-> "err"]
DecodeOk(v) == [st |-> "ok", v |-> v]

-----------------------------------------------------------------------------
(* Activations *)

Frame(node, path) ==
    [node |-> node, pc |-> "start", out |-> "", parts |-> <<>>,
     i |-> 0, pos |-> 0, count |-> 0, path |-> path]

Top == stack[Len(stack)]

Running == status = "running" /\ stack # <<>>

At(kind, pc) == Running /\ Top.node.k = kind /\ Top.pc = pc

PanicStates == {"panic_overflow", "panic_unwrap", "panic_io", "panic_decode"}

Panicked == status \in PanicStates

\* a panic aborts the process: nothing runs after it
Panic(why) ==
    /\ status' = why
    /\ UNCHANGED <<stack, ret, stdout, log>>

\* the top activation calls child.to_bbcode() and waits at pc
Call(pc, child, childNo) ==
    /\ stack' = Append([stack EXCEPT ![Len(stack)].pc = pc],
                       Frame(child, Append(Top.path, childNo)))
    /\ UNCHANGED <<ret, status, stdout, log>>

\* the top activation returns the String s to its caller
Return(s) ==
    /\ stack' = SubSeq(stack, 1, Len(stack) - 1)
    /\ ret' = Some(s)
    /\ log' = Append(log, [e |-> "exit", path |-> Top.path])
    /\ status' = IF Len(stack) = 1 THEN "returned" ELSE status
    /\ UNCHANGED stdout

Env == <<checked, present, decoded, unit>>

-----------------------------------------------------------------------------
(* fn main *)

\* let st = Include::<TaromaruST>::new("data/taromaru-st.ron").to_bbcode();
MainCall ==
    /\ At("Main", "start")
    /\ stack' = Append([stack EXCEPT ![Len(stack)].pc = "wait"],
                       Frame(Include_new(RootUri, "TaromaruST"), <<>>))
    /\ UNCHANGED <<ret, status, stdout, log, Env>>

\* println!("BBCode:\n{}", st);
MainPrint ==
    /\ At("Main", "wait")
    /\ stdout' = Append(stdout, "BBCode:\n" \o Unwrap(ret))
    /\ status' = "done"
    /\ stack' = <<>>
    /\ UNCHANGED <<ret, log, Env>>

-----------------------------------------------------------------------------
(* impl ToBBCode for Include<T> *)

\* println!("Loading {}", self.0);
IncludePrint ==
    /\ At("Include", "start")
    /\ stdout' = Append(stdout, "Loading " \o Top.node.uri)
    /\ log' = Append(log, [e |-> "load", path |-> Top.path])
    /\ stack' = [stack EXCEPT ![Len(stack)].pc = "read"]
    /\ UNCHANGED <<ret, status, Env>>

\* let s = std::fs::read_to_string(self.0).unwrap();
IncludeRead ==
    /\ At("Include", "read")
    /\ \E p \in {"yes", "no"} :
          /\ present[Top.node.uri] \in {"?", p}
          /\ present' = [present EXCEPT ![Top.node.uri] = p]
          /\ IF p = "no"
             THEN Panic("panic_io")
             ELSE /\ stack' = [stack EXCEPT ![Len(stack)].pc = "decode"]
                  /\ UNCHANGED <<ret, status, stdout, log>>
    /\ UNCHANGED <<checked, decoded, unit>>

\* a decode whose error is swallowed: the Include renders as the empty String
IncludeDecode_ErrEmpty ==
    /\ At("Include", "decode")
    /\ LET key == <<Top.node.uri, Top.node.t>> IN
       \E r \in {DecodeErr} \cup {DecodeOk(v) : v \in ValuesOf(Top.node.uri, Top.node.t)} :
          /\ decoded[key].st = "?" \/ decoded[key] = r
          /\ decoded' = [decoded EXCEPT ![key] = r]
          /\ IF r.st = "err"
             THEN Return("")
             ELSE Call("wait", r.v, 1)
    /\ UNCHANGED <<checked, present, unit>>

\* let value: T = ron::from_str(&s).unwrap();  then the call of value.to_bbcode()
IncludeDecode ==
    /\ At("Include", "decode")
    /\ LET key == <<Top.node.uri, Top.node.t>> IN
       \E r \in {DecodeErr} \cup {DecodeOk(v) : v \in ValuesOf(Top.node.uri, Top.node.t)} :
          /\ decoded[key].st = "?" \/ decoded[key] = r
          /\ decoded' = [decoded EXCEPT ![key] = r]
          /\ IF r.st = "err"
             THEN Panic("panic_decode")
             ELSE Call("wait", r.v, 1)
    /\ UNCHANGED <<checked, present, unit>>

\* an Include that wraps what it resolved in a tag of its own
Include_result_Wrapped(s) == "[include]" \o s \o "[/include]"

\* the String value.to_bbcode() gave is the Include's own result
Include_result(s) == s

IncludeReturn ==
    /\ At("Include", "wait")
    /\ Return(Include_result(Unwrap(ret)))
    /\ UNCHANGED Env

-----------------------------------------------------------------------------
(* impl ToBBCode for TaromaruST, impl ToBBCode for Enemies *)

\* self.enemies.to_bbcode()
TaromaruSTCall ==
    /\ At("TaromaruST", "start")
    /\ Call("wait", Top.node.enemies, 1)
    /\ UNCHANGED Env

TaromaruSTReturn ==
    /\ At("TaromaruST", "wait")
    /\ Return(Unwrap(ret))
    /\ UNCHANGED Env

\* self.0.to_bbcode()
EnemiesCall ==
    /\ At("Enemies", "start")
    /\ Call("wait", Top.node.list, 1)
    /\ UNCHANGED Env

EnemiesReturn ==
    /\ At("Enemies", "wait")
    /\ Return(Unwrap(ret))
    /\ UNCHANGED Env

-----------------------------------------------------------------------------
(* impl ToBBCode for String, the leaf a description decodes to *)

StringReturn ==
    /\ Running /\ Top.node.k = "String"
    /\ Return(Top.node.s)
    /\ UNCHANGED Env

(* a KeyValue as the child of a list *)

KeyValueReturn ==
    /\ Running /\ Top.node.k = "KeyValue"
    /\ Return(KeyValue_to_bbcode(Top.node))
    /\ UNCHANGED Env

-----------------------------------------------------------------------------
(* impl ToBBCode for List<T>, impl ToBBCode for DoubleList<T>               *)
(* The two bodies differ in what they append after each of the first count *)
(* items.  iter is a lazy map: a child's to_bbcode runs inside next().     *)

ListKinds == {"List", "DoubleList"}

\* out += "\n";  and for DoubleList a second  out += "\n";
Separator_Swapped(kind) == IF kind = "List" THEN "\n" \o "\n" ELSE "\n"

Separator(kind) == IF kind = "List" THEN "\n" ELSE "\n" \o "\n"

\* usize subtraction where overflow wraps
WrappingSub(a, b) == (a - b) % (2 ^ UsizeBits)

\* ExactSizeIterator::len of the mapped into_iter
ExactLen(items) == Len(items)

\* a join that returns the empty String for an empty Vec
JoinEnter_EmptyOk(kind) ==
    /\ At(kind, "start")
    /\ IF ExactLen(Top.node.items) < 1
       THEN Return("")
       ELSE /\ stack' = [stack EXCEPT ![Len(stack)].count =
                                         WrappingSub(ExactLen(Top.node.items), 1),
                                      ![Len(stack)].pc = "loop"]
            /\ UNCHANGED <<ret, status, stdout, log>>
    /\ UNCHANGED Env

\* let count = iter.len() - 1;
JoinEnter(kind) ==
    /\ At(kind, "start")
    /\ IF checked /\ ExactLen(Top.node.items) < 1
       THEN Panic("panic_overflow")
       ELSE /\ stack' = [stack EXCEPT ![Len(stack)].count =
                                         WrappingSub(ExactLen(Top.node.items), 1),
                                      ![Len(stack)].pc = "loop"]
            /\ UNCHANGED <<ret, status, stdout, log>>
    /\ UNCHANGED Env

\* an iterator that yields the items last to first
JoinNext_Reversed(pc) ==
    IF Top.pos >= Len(Top.node.items)
    THEN Panic("panic_unwrap")
    ELSE /\ stack' = Append([stack EXCEPT ![Len(stack)].pc = pc,
                                          ![Len(stack)].pos = Top.pos + 1],
                            Frame(Top.node.items[Len(Top.node.items) - Top.pos],
                                  Append(Top.path, Len(Top.node.items) - Top.pos)))
         /\ UNCHANGED <<ret, status, stdout, log>>

\* iter.next().unwrap(): None panics, Some(child) is child.to_bbcode()
JoinNext(pc) ==
    IF Top.pos >= Len(Top.node.items)
    THEN Panic("panic_unwrap")
    ELSE /\ stack' = Append([stack EXCEPT ![Len(stack)].pc = pc,
                                          ![Len(stack)].pos = Top.pos + 1],
                            Frame(Top.node.items[Top.pos + 1],
                                  Append(Top.path, Top.pos + 1)))
         /\ UNCHANGED <<ret, status, stdout, log>>

\* for _ in 0..count { out += &iter.next().unwrap(); ...
JoinLoopCall(kind) ==
    /\ At(kind, "loop")
    /\ Top.i < Top.count
    /\ JoinNext("loopwait")
    /\ UNCHANGED Env

\* ... out += "\n"; }
JoinLoopAppend(kind) ==
    /\ At(kind, "loopwait")
    /\ stack' = [stack EXCEPT ![Len(stack)].out = Top.out \o Unwrap(ret) \o Separator(kind),
                              ![Len(stack)].i = Top.i + 1,
                              ![Len(stack)].pc = "loop"]
    /\ UNCHANGED <<ret, status, stdout, log, Env>>

\* out += &iter.next().unwrap();   after the loop
JoinLastCall(kind) ==
    /\ At(kind, "loop")
    /\ Top.i >= Top.count
    /\ JoinNext("lastwait")
    /\ UNCHANGED Env

\* out
JoinReturn(kind) ==
    /\ At(kind, "lastwait")
    /\ Return(Top.out \o Unwrap(ret))
    /\ UNCHANGED Env

ListEnter == JoinEnter("List")
ListLoopCall == JoinLoopCall("List")
ListLoopAppend == JoinLoopAppend("List")
ListLastCall == JoinLastCall("List")
ListReturn == JoinReturn("List")

DoubleListEnter == JoinEnter("DoubleList")
DoubleListLoopCall == JoinLoopCall("DoubleList")
DoubleListLoopAppend == JoinLoopAppend("DoubleList")
DoubleListLastCall == JoinLastCall("DoubleList")
DoubleListReturn == JoinReturn("DoubleList")

-----------------------------------------------------------------------------
(* impl ToBBCode for Enemy: the four arguments of format!, in order *)

\* TextStyle::size(120) | TextStyle::bold() | TextStyle::italic()
TitleStyle == bitor(bitor(TextStyle_size(TitleSize), TextStyle_bold), TextStyle_italic)

\* the [KeyValue; 2] collected into a List
StatBlock(self) ==
    List_new(<<KeyValue_style_key(KeyValue_new("Health", self.health), TextStyle_bold),
               KeyValue_style_key(KeyValue_new("Points", self.points), TextStyle_bold)>>)

\* the name and the image are rendered, then the stat block's to_bbcode is called
EnemyTitle ==
    /\ At("Enemy", "start")
    /\ stack' = Append(
          [stack EXCEPT ![Len(stack)].pc = "stats",
                        ![Len(stack)].parts =
                            <<Text_to_bbcode(Text_style(Text_new(Top.node.name), TitleStyle)),
                              Image_to_bbcode(Image_new(Top.node.image))>>],
          Frame(StatBlock(Top.node), Append(Top.path, 3)))
    /\ log' = log \o <<[e |-> "exit", path |-> Append(Top.path, 1)],
                       [e |-> "exit", path |-> Append(Top.path, 2)]>>
    /\ UNCHANGED <<ret, status, stdout, Env>>

\* self.description.to_bbcode()
EnemyDescription ==
    /\ At("Enemy", "stats")
    /\ stack' = Append(
          [stack EXCEPT ![Len(stack)].pc = "desc",
                        ![Len(stack)].parts = Append(Top.parts, Unwrap(ret))],
          Frame(Top.node.description, Append(Top.path, 4)))
    /\ UNCHANGED <<ret, status, stdout, log, Env>>

\* format!("{}\n\n{}\n\n{}\n\n{}", ...)
EnemyReturn ==
    /\ At("Enemy", "desc")
    /\ Return(Top.parts[1] \o "\n\n" \o Top.parts[2] \o "\n\n" \o Top.parts[3]
              \o "\n\n" \o Unwrap(ret))
    /\ UNCHANGED Env

-----------------------------------------------------------------------------
(* The program: main renders the root Include against the resource files *)

Idle == [t |-> "none"]

Init ==
    /\ stack = <<Frame(MainNode, <<>>)>>
    /\ ret = None
    /\ status = "running"
    /\ stdout = <<>>
    /\ checked \in BOOLEAN
    /\ present = [u \in Uris |-> "?"]
    /\ decoded = [key \in Uris \X Types |-> Unknown]
    /\ log = <<>>
    /\ unit = Idle

Next ==
    \/ MainCall \/ MainPrint
    \/ IncludePrint \/ IncludeRead \/ IncludeDecode \/ IncludeReturn
    \/ TaromaruSTCall \/ TaromaruSTReturn
    \/ EnemiesCall \/ EnemiesReturn
    \/ DoubleListEnter \/ DoubleListLoopCall \/ DoubleListLoopAppend
    \/ DoubleListLastCall \/ DoubleListReturn
    \/ ListEnter \/ ListLoopCall \/ ListLoopAppend \/ ListLastCall \/ ListReturn
    \/ EnemyTitle \/ EnemyDescription \/ EnemyReturn
    \/ StringReturn \/ KeyValueReturn

Spec == Init /\ [][Next]_vars

\* the process runs on until it exits: one thread, nothing to wait for
FairSpec == Spec /\ WF_vars(Next)

-----------------------------------------------------------------------------
(* The pure functions, applied to inputs drawn from bounded sets *)

NoProgram ==
    /\ stack = <<>>
    /\ ret = None
    /\ status = "running"
    /\ stdout = <<>>
    /\ checked = TRUE
    /\ present = [u \in Uris |-> "?"]
    /\ decoded = [key \in Uris \X Types |-> Unknown]
    /\ log = <<>>

Program == <<stack, ret, status, stdout, checked, present, decoded, log>>

Colors == {"red", "blue"}
Sizes == {10, TitleSize}

Styles ==
    [color : {None} \cup {Some(c) : c \in Colors},
     size : {None} \cup {Some(n) : n \in Sizes},
     bold : BOOLEAN, italic : BOOLEAN]

(* TextStyle: a | b | c grouped either way, and a merged with the default *)

InitStyle ==
    /\ NoProgram
    /\ \E a \in Styles, b \in Styles, c \in Styles :
          unit = [t |-> "style", a |-> a, b |-> b, c |-> c,
                  left |-> None, right |-> None, idl |-> None, idr |-> None]

MergeLeft ==
    /\ unit.left = None
    /\ unit' = [unit EXCEPT !.left = Some(bitor(bitor(unit.a, unit.b), unit.c))]
    /\ UNCHANGED Program

MergeRight ==
    /\ unit.left # None /\ unit.right = None
    /\ unit' = [unit EXCEPT !.right = Some(bitor(unit.a, bitor(unit.b, unit.c)))]
    /\ UNCHANGED Program

MergeDefault ==
    /\ unit.right # None /\ unit.idl = None
    /\ unit' = [unit EXCEPT !.idl = Some(bitor(TextStyle_default, unit.a)),
                            !.idr = Some(bitor(unit.a, TextStyle_default))]
    /\ UNCHANGED Program

NextStyle == MergeLeft \/ MergeRight \/ MergeDefault

SpecStyle == InitStyle /\ [][NextStyle]_vars

(* Text: new, style, to_bbcode *)

Contents == {"X", "", "Health:"}

InitText ==
    /\ NoProgram
    /\ \E c \in Contents : unit = [t |-> "text", node |-> Text_new(c), out |-> None]

TextStyled ==
    /\ unit.out = None
    /\ \E s \in Styles : unit' = [unit EXCEPT !.node = Text_style(unit.node, s)]
    /\ UNCHANGED Program

TextRendered ==
    /\ unit.out = None
    /\ unit' = [unit EXCEPT !.out = Some(Text_to_bbcode(unit.node))]
    /\ UNCHANGED Program

NextText == TextStyled \/ TextRendered

SpecText == InitText /\ [][NextText]_vars

(* KeyValue: new, style_key, style_value, style, to_bbcode *)

Keys == {"Health", "Points"}
Values == {0, 7, 50}

KeyValueStyles ==
    {TextStyle_default, TextStyle_bold, TextStyle_color("red"),
     bitor(TextStyle_size(10), TextStyle_italic)}

InitKeyValue ==
    /\ NoProgram
    /\ \E key \in Keys, value \in Values :
          unit = [t |-> "kv", key |-> key, value |-> value,
                  node |-> KeyValue_new(key, value), prev |-> KeyValue_new(key, value),
                  op |-> "new", arg |-> <<>>, out |-> None]

KeyValueStyledKey ==
    /\ unit.out = None
    /\ \E s \in KeyValueStyles :
          unit' = [unit EXCEPT !.node = KeyValue_style_key(unit.node, s),
                               !.prev = unit.node, !.op = "style_key", !.arg = <<s>>]
    /\ UNCHANGED Program

KeyValueStyledValue ==
    /\ unit.out = None
    /\ \E s \in KeyValueStyles :
          unit' = [unit EXCEPT !.node = KeyValue_style_value(unit.node, s),
                               !.prev = unit.node, !.op = "style_value", !.arg = <<s>>]
    /\ UNCHANGED Program

KeyValueStyled ==
    /\ unit.out = None
    /\ \E s1 \in KeyValueStyles, s2 \in KeyValueStyles :
          unit' = [unit EXCEPT !.node = KeyValue_style(unit.node, s1, s2),
                               !.prev = unit.node, !.op = "style", !.arg = <<s1, s2>>]
    /\ UNCHANGED Program

KeyValueRendered ==
    /\ unit.out = None
    /\ unit' = [unit EXCEPT !.out = Some(KeyValue_to_bbcode(unit.node))]
    /\ UNCHANGED Program

NextKeyValue ==
    KeyValueStyledKey \/ KeyValueStyledValue \/ KeyValueStyled \/ KeyValueRendered

SpecKeyValue == InitKeyValue /\ [][NextKeyValue]_vars

(* List<String> and DoubleList<String>: to_bbcode of a Vec of 0..MaxItems items *)

Items == {"A", "B", ""}

InitList ==
    /\ \E items \in SeqsUpTo({String_new(s) : s \in Items}, MaxItems), kind \in ListKinds :
          /\ unit = [t |-> "list", node |-> [k |-> kind, items |-> items]]
          /\ stack = <<Frame([k |-> kind, items |-> items], <<>>)>>
    /\ ret = None
    /\ status = "running"
    /\ stdout = <<>>
    /\ checked \in BOOLEAN
    /\ present = [u \in Uris |-> "?"]
    /\ decoded = [key \in Uris \X Types |-> Unknown]
    /\ log = <<>>

NextList ==
    \/ DoubleListEnter \/ DoubleListLoopCall \/ DoubleListLoopAppend
    \/ DoubleListLastCall \/ DoubleListReturn
    \/ ListEnter \/ ListLoopCall \/ ListLoopAppend \/ ListLastCall \/ ListReturn
    \/ StringReturn

SpecList == InitList /\ [][NextList]_vars

-----------------------------------------------------------------------------
(* Properties of the pure functions *)

\* the rightmost present value of a sequence of Options, None if there is none
RECURSIVE RightmostSome(_)
RightmostSome(os) ==
    IF os = <<>> THEN None
    ELSE IF IsSome(os[Len(os)]) THEN os[Len(os)]
    ELSE RightmostSome(SubSeq(os, 1, Len(os) - 1))

\* C8: the default TextStyle is a left and a right identity of the merge:
\* default | a and a | default both equal a on color, size, bold and italic.
C8_DefaultIsIdentity ==
    (unit.t = "style" /\ IsSome(unit.idl)) =>
        \A r \in {Unwrap(unit.idl), Unwrap(unit.idr)} :
            /\ r.color = unit.a.color
            /\ r.size = unit.a.size
            /\ r.bold = unit.a.bold
            /\ r.italic = unit.a.italic

\* a fully set style has been merged with the default on both sides
C8_Witness ==
    /\ unit.t = "style" /\ IsSome(unit.idl) /\ IsSome(unit.idr)
    /\ unit.a = [color |-> Some("red"), size |-> Some(10), bold |-> TRUE, italic |-> TRUE]

\* C9: the merge is associative, (a | b) | c = a | (b | c) on all four
\* attributes; color and size are the rightmost present value of a, b, c and
\* bold and italic are the logical OR of the three.
C9_MergeAssociative ==
    (unit.t = "style" /\ IsSome(unit.left) /\ IsSome(unit.right)) =>
        LET l == Unwrap(unit.left)
            r == Unwrap(unit.right)
        IN  /\ l.color = r.color /\ l.size = r.size
            /\ l.bold = r.bold /\ l.italic = r.italic
            /\ l.color = RightmostSome(<<unit.a.color, unit.b.color, unit.c.color>>)
            /\ l.size = RightmostSome(<<unit.a.size, unit.b.size, unit.c.size>>)
            /\ l.bold = (unit.a.bold \/ unit.b.bold \/ unit.c.bold)
            /\ l.italic = (unit.a.italic \/ unit.b.italic \/ unit.c.italic)

\* both groupings are computed for operands that conflict on color and on size
C9_Witness ==
    /\ unit.t = "style" /\ IsSome(unit.left) /\ IsSome(unit.right)
    /\ unit.a.color = Some("red") /\ unit.b.color = Some("blue") /\ unit.c.color = None
    /\ unit.a.size = Some(10) /\ unit.b.size = None /\ unit.c.size = Some(TitleSize)
    /\ unit.a.bold /\ ~unit.b.bold /\ ~unit.c.bold

\* the decimal text of the sizes the specifications draw
SizeText(n) == CASE n = 10 -> "10" [] n = 120 -> "120"

\* the opening tags of a style, outermost first, and its closing tags
OpenTags(style) ==
    (IF style.italic THEN "[i]" ELSE "") \o
    (IF style.bold THEN "[b]" ELSE "") \o
    (IF IsSome(style.size) THEN "[size=" \o SizeText(Unwrap(style.size)) \o "]" ELSE "") \o
    (IF IsSome(style.color) THEN "[color=" \o Unwrap(style.color) \o "]" ELSE "")

CloseTags(style) ==
    (IF IsSome(style.color) THEN "[/color]" ELSE "") \o
    (IF IsSome(style.size) THEN "[/size]" ELSE "") \o
    (IF style.bold THEN "[/b]" ELSE "") \o
    (IF style.italic THEN "[/i]" ELSE "")

Wrapped(content, style) == OpenTags(style) \o content \o CloseTags(style)

\* C1: to_bbcode of a Text is its content wrapped, innermost to outermost, in
\* color, size, bold, italic; a tag pair is there once if the attribute is
\* set and not at all otherwise, for all 16 combinations.
C1_TextNesting ==
    (unit.t = "text" /\ IsSome(unit.out)) =>
        /\ Unwrap(unit.out) = Wrapped(unit.node.s, unit.node.style)
        /\ (unit.node = Text_style(Text_new("X"), bitor(TextStyle_bold, TextStyle_italic))
               => Unwrap(unit.out) = "[i][b]X[/b][/i]")
        /\ (unit.node = Text_style(Text_new("X"),
                                   bitor(TextStyle_color("red"), TextStyle_size(10)))
               => Unwrap(unit.out) = "[size=10][color=red]X[/color][/size]")

\* a Text with all four attributes has been rendered
C1_Witness ==
    /\ unit.t = "text"
    /\ unit.out = Some("[i][b][size=10][color=red]X[/color][/size][/b][/i]")

\* the decimal text of the values the specifications draw
ValueText(n) == CASE n = 0 -> "0" [] n = 7 -> "7" [] n = 50 -> "50" [] n = 100 -> "100"

\* C6: KeyValue::new(k, v) unstyled renders as k, ":", " ", v; to_bbcode is
\* the key's rendering followed by the value's with nothing between; style_key
\* and style_value set the style of their half only.
C6_KeyValue ==
    (unit.t = "kv") =>
        /\ unit.node.key.s = unit.key \o ":"
        /\ unit.node.value.s = " " \o ValueText(unit.value)
        /\ IsSome(unit.out) =>
              Unwrap(unit.out) = Wrapped(unit.key \o ":", unit.node.key.style)
                                 \o Wrapped(" " \o ValueText(unit.value), unit.node.value.style)
        /\ (IsSome(unit.out) /\ unit.op = "new") =>
              Unwrap(unit.out) = unit.key \o ": " \o ValueText(unit.value)
        /\ (IsSome(unit.out) /\ unit.op = "new" /\ unit.key = "Health" /\ unit.value = 50) =>
              Unwrap(unit.out) = "Health: 50"
        /\ unit.op = "style_key" =>
              /\ unit.node.key.style = unit.arg[1]
              /\ unit.node.value = unit.prev.value
        /\ unit.op = "style_value" =>
              /\ unit.node.value.style = unit.arg[1]
              /\ unit.node.key = unit.prev.key
        /\ unit.op = "style" =>
              /\ unit.node.key.style = unit.arg[1]
              /\ unit.node.value.style = unit.arg[2]

\* a KeyValue whose value was styled had its key styled alone, and was rendered
C6_Witness ==
    /\ unit.t = "kv" /\ unit.op = "style_key" /\ IsSome(unit.out)
    /\ unit.arg = <<TextStyle_bold>>
    /\ unit.prev.value.style = TextStyle_color("red")
    /\ unit.key = "Health" /\ unit.value = 50

\* the renderings joined by sep: no separator before the first or after the last
RECURSIVE Joined(_, _)
Joined(rs, sep) ==
    IF rs = <<>> THEN ""
    ELSE IF Len(rs) = 1 THEN rs[1]
    ELSE Joined(SubSeq(rs, 1, Len(rs) - 1), sep) \o sep \o rs[Len(rs)]

RECURSIVE TotalLen(_)
TotalLen(rs) == IF rs = <<>> THEN 0 ELSE Len(rs[1]) + TotalLen(Tail(rs))

\* C2: a List of n >= 1 children returns their renderings in order joined by
\* one "\n", a DoubleList by "\n\n": n - 1 separators, none leading or
\* trailing, and the child's own rendering for n = 1.
C2_ListJoin ==
    (unit.t = "list" /\ Len(unit.node.items) >= 1) =>
        LET rs == [j \in 1..Len(unit.node.items) |-> unit.node.items[j].s]
            n == Len(rs)
            sep == IF unit.node.k = "List" THEN "\n" ELSE "\n\n"
        IN  /\ ~Panicked
            /\ ~ENABLED NextList => status = "returned"
            /\ status = "returned" =>
                  /\ Unwrap(ret) = Joined(rs, sep)
                  /\ Len(Unwrap(ret)) = TotalLen(rs) + (n - 1) * Len(sep)
                  /\ n = 1 => Unwrap(ret) = rs[1]

\* a DoubleList of three children has been rendered
C2_Witness ==
    /\ unit.t = "list" /\ unit.node.k = "DoubleList"
    /\ status = "returned" /\ ret = Some("A\n\n\n\nB")

\* C3: rendering a List or DoubleList with no children never returns a
\* String; it can only end in a panic, whether len - 1 traps or wraps.
C3_EmptyListFails ==
    (unit.t = "list" /\ Len(unit.node.items) = 0) =>
        /\ ret = None
        /\ status # "returned"
        /\ ~ENABLED NextList => Panicked
        /\ Panicked => status = (IF checked THEN "panic_overflow" ELSE "panic_unwrap")

\* an empty list has panicked in the build where len - 1 wraps
C3_Witness ==
    /\ unit.t = "list" /\ Len(unit.node.items) = 0
    /\ ~checked /\ status = "panic_unwrap"
    /\ Top.count = 2 ^ UsizeBits - 1

-----------------------------------------------------------------------------
(* Properties of the render of the root Include *)

\* what a node stands for once every Include under it is replaced by the
\* value its file decoded to: leaf and composite markup only
RECURSIVE Denote(_)
Denote(n) ==
    CASE n.k = "String"     -> n.s
      [] n.k = "KeyValue"   -> Wrapped(n.key.s, n.key.style) \o Wrapped(n.value.s, n.value.style)
      [] n.k = "List"       -> Joined([j \in 1..Len(n.items) |-> Denote(n.items[j])], "\n")
      [] n.k = "DoubleList" -> Joined([j \in 1..Len(n.items) |-> Denote(n.items[j])], "\n\n")
      [] n.k = "Enemy"      ->
            "[i][b][size=120]" \o n.name \o "[/size][/b][/i]" \o "\n\n"
            \o "[img]" \o n.image \o "[/img]" \o "\n\n"
            \o "[b]Health:[/b] " \o ValueText(n.health) \o "\n"
            \o "[b]Points:[/b] " \o ValueText(n.points) \o "\n\n"
            \o Denote(n.description)
      [] n.k = "Include"    -> Denote(decoded[<<n.uri, n.t>>].v)
      [] n.k = "Enemies"    -> Denote(n.list)
      [] n.k = "TaromaruST" -> Denote(n.enemies)

RECURSIVE SumOf(_)
SumOf(ns) == IF ns = <<>> THEN 0 ELSE ns[1] + SumOf(Tail(ns))

\* the number of Include nodes of the resolved tree under a node
RECURSIVE CountIncludes(_)
CountIncludes(n) ==
    CASE n.k \in {"String", "KeyValue"} -> 0
      [] n.k \in ListKinds -> SumOf([j \in 1..Len(n.items) |-> CountIncludes(n.items[j])])
      [] n.k = "Enemy"      -> CountIncludes(n.description)
      [] n.k = "Include"    -> 1 + CountIncludes(decoded[<<n.uri, n.t>>].v)
      [] n.k = "Enemies"    -> CountIncludes(n.list)
      [] n.k = "TaromaruST" -> CountIncludes(n.enemies)

RootInclude == Include_new(RootUri, "TaromaruST")

\* the child whose to_bbcode the activation f last called
LastChild(f) ==
    CASE f.node.k = "Main"       -> RootInclude
      [] f.node.k = "Include"    -> decoded[<<f.node.uri, f.node.t>>].v
      [] f.node.k = "TaromaruST" -> f.node.enemies
      [] f.node.k = "Enemies"    -> f.node.list
      [] f.node.k \in ListKinds  -> f.node.items[f.pos]
      [] f.node.k = "Enemy"      -> IF f.pc = "stats" THEN StatBlock(f.node)
                                    ELSE f.node.description

WaitPcs == {"wait", "loopwait", "lastwait", "stats", "desc"}

LoadCount == Cardinality({j \in 1..Len(log) : log[j].e = "load"})

LoadingLines == {"Loading " \o u : u \in Uris}

LoadFailed ==
    \/ \E u \in Uris : present[u] = "no"
    \/ \E key \in Uris \X Types : decoded[key].st = "err"

\* C4: once a load or a decode of an Include has failed, at any depth, the
\* render is aborted: the root's to_bbcode has not returned and never does,
\* and standard output holds neither the "BBCode:" label nor any markup.
C4_FailureAborts ==
    (unit.t = "none" /\ LoadFailed) =>
        /\ status \in {"panic_io", "panic_decode"}
        /\ ~ENABLED Next
        /\ Len(stack) >= 2 /\ stack[1].node.k = "Main" /\ stack[2].node = RootInclude
        /\ \A j \in 1..Len(stdout) : stdout[j] \in LoadingLines

\* a description failed to load after a sibling Enemy had been rendered
C4_Witness ==
    /\ unit.t = "none" /\ status = "panic_io"
    /\ Top.node.t = "String"
    /\ \E j \in 1..Len(log) : log[j].e = "exit" /\ Len(log[j].path) = 7

\* C5: an Include renders as exactly what the value decoded from its file
\* renders as, with nothing added, at every level: what each activation gets
\* back from a child is the child's resolved markup, the String main prints
\* is the resolved markup of the root, and every Include under it was loaded.
C5_IncludeTransparent ==
    (unit.t = "none") =>
        /\ (Running /\ Top.pc \in WaitPcs) => Unwrap(ret) = Denote(LastChild(Top))
        /\ status = "done" =>
              /\ stdout[Len(stdout)] = "BBCode:\n" \o Denote(RootInclude)
              /\ LoadCount = CountIncludes(RootInclude)
              /\ Len(stdout) = LoadCount + 1

\* main printed a roster resolved through all four levels of Include
C5_Witness ==
    /\ unit.t = "none" /\ status = "done"
    /\ LoadCount >= 6

IsPrefix(p, q) == Len(p) <= Len(q) /\ SubSeq(q, 1, Len(p)) = p

\* p comes before q in document order: p is an ancestor of q, or p branches
\* off to the left of q
DocBefore(p, q) ==
    \/ Len(p) < Len(q) /\ IsPrefix(p, q)
    \/ \E m \in 1..Len(p) :
          /\ m <= Len(q)
          /\ SubSeq(p, 1, m - 1) = SubSeq(q, 1, m - 1)
          /\ p[m] < q[m]

\* every left sibling of the node at path, and of each of its ancestors, has an
\* exit event before position j of the log
LeftSiblingsDone(path, j) ==
    \A m \in 1..Len(path) : \A c \in 1..(path[m] - 1) :
        \E i \in 1..(j - 1) :
            log[i] = [e |-> "exit", path |-> Append(SubSeq(path, 1, m - 1), c)]

\* event j of the log is in order with everything before it
InOrder(j) ==
    /\ log[j].e = "load" =>
          /\ LeftSiblingsDone(log[j].path, j)
          /\ \A i \in 1..(j - 1) : log[i].e = "load" => DocBefore(log[i].path, log[j].path)
    /\ \A i \in 1..(j - 1) :
          log[i].e = "exit" => ~IsPrefix(log[i].path, log[j].path)

\* C7: loads and child renderings happen depth first, left to right: a load
\* starts only after every child to its left (in a list; name, image and stat
\* block in an Enemy) has been rendered with all loads under it, and no
\* Include node is loaded twice.  Stated of the last two events of the log,
\* every prefix of which is the log of an earlier state.
C7_DocumentOrder ==
    (unit.t = "none") =>
        \A j \in 1..Len(log) : j >= Len(log) - 1 => InOrder(j)

\* the description of the second Enemy of the second list has been loaded
C7_Witness ==
    /\ unit.t = "none"
    /\ \E j \in 1..Len(log) : log[j] = [e |-> "load", path |-> <<1, 1, 1, 1, 2, 1, 2, 4>>]

IncludeDepth == Cardinality({j \in 1..Len(stack) : stack[j].node.k = "Include"})

Terminated == status = "done" \/ Panicked

\* C10: the render of the root always terminates, with main's print or with
\* a panic, whatever the files hold and however their names refer to each
\* other; at most four Includes are ever nested, and a decoded String is
\* returned without a further load.
C10_Terminates ==
    /\ [](IncludeDepth <= 4)
    /\ [](\A j \in 1..Len(stack) : stack[j].node.k = "String" => j = Len(stack))
    /\ <>Terminated

\* the render ended although the root file names itself as its roster, which
\* names the root file as a list, whose Enemy names it as its description
C10_Witness ==
    /\ unit.t = "none" /\ status = "done"
    /\ decoded[<<RootUri, "TaromaruST">>].v.enemies.uri = RootUri
    /\ decoded[<<RootUri, "Enemies">>].v.list.items[1].uri = RootUri
    /\ decoded[<<RootUri, "ListEnemy">>].v.items[1].description.uri = RootUri

====
